---- MODULE Spec2Model ----
(***************************************************************************)
(* State-machine model of the WalkTrough navigation macro                  *)
(* (src/FreeCAD_NavTest.py): the start-up in main(), the walkTroughView    *)
(* session object, its two event callbacks, the teardown, and the two      *)
(* angle helpers updateAz / updateEl.                                      *)
(*                                                                         *)
(* Number representation (Python floats are idealised as exact numbers):   *)
(*   - azimuth, elevation of the session: integers, unit 1/10000 rad       *)
(*     (the unit of one pixel at mouse_speed 1, MOUSE_SPEED_DIVIDER);      *)
(*   - sin, cos: integers, unit 1/1000 (TrigScale);                        *)
(*   - walktrough_speed_mm: integer mm; x, y, z and the host camera        *)
(*     position: integers, unit 1/1000 mm (speed * sin);                   *)
(*   - raw pointer coordinates: integers, unit 1/2 pixel, so that int()    *)
(*     has something to truncate;                                          *)
(*   - the arguments of updateAz / updateEl: radians in units of           *)
(*     pi/RadPerPi, degrees in units of 1/DegScale degree.                 *)
(***************************************************************************)
EXTENDS Integers, FiniteSets, Sequences, TLC

\* ------------------------------------------------------------------ bounds

\* Key and pointer events delivered per behaviour.
MaxEvents == 2

\* Host calls that raise inside the handlers, per behaviour.
MaxFailures == 1

\* The pointer visits MaxPointer + 1 raw positions.
MaxPointer == 1

\* updateAz / updateEl are applied to values of -MaxTurns..MaxTurns full turns.
MaxTurns == 1

\* Increments of updateAz / updateEl range over -MaxInc..MaxInc half-degrees.
MaxInc == 2

\* ------------------------------------------------------- program constants

DEFAULT_WALKTROUGH_SPEED_MM_PER_KEYPRESS == 100

DEFAULT_WALKTROUGH_SPEED_MM_INCREMENT == 10

DEFALUT_MOUSE_ACTIVE == TRUE

DEFALUT_ELEVATION_FROZEN == FALSE

DEFAULT_MOUSE_SPEED == 50

DEFAULT_MOUSE_SPEED_INCREMENT == 5

\* pi in the session's angle unit (1/10000 rad, MOUSE_SPEED_DIVIDER).
Pi == 31416

HalfPi == 15708

TwoPi == 62832

\* Scale of Sin and Cos.
TrigScale == 1000

\* Radian unit of the angle helpers: pi/RadPerPi (half a degree).
RadPerPi == 360

\* Degree unit of the angle helpers: 1/DegScale degree.
DegScale == 4

\* 360, 90 and 270 degrees in the helpers' degree unit.
Deg360 == 360 * DegScale

Deg90 == 90 * DegScale

Deg270 == 270 * DegScale

\* ------------------------------------------------------------- input sets

Keys == {"ESCAPE", "W", "S", "A", "D", "Q", "E", "R", "F", "T", "G",
         "X", "C", "V", "OTHER"}

KeyStates == {"DOWN", "UP"}

\* Raw pointer positions (half-pixels): (0,0), (20,1), (1,5), (21,6), ...
\* The second is 10 pixels right of the first and truncates to the same y.
PointerPositions ==
    {<<20 * (i % 2) + (i \div 2), 5 * (i \div 2) + (i % 2)>> : i \in 0..MaxPointer}

TeardownSteps == <<"removeMouse", "removeKey", "setCameraType",
                   "clearMessage", "close">>

TeardownStepSet == {TeardownSteps[i] : i \in 1..Len(TeardownSteps)}

\* Host calls of updateKeyPressMotion and its callees that may raise.
KeyFails == {"none", "getEvent", "getPosition", "setValue", "viewFit"}
                \cup TeardownStepSet

\* Host calls of updateMouseMotion / updateViewVector that may raise;
\* "getEvent" stands for the reads of the event (getEvent, getTypeId,
\* getPosition), which all precede the first assignment.
MouseFails == {"none", "getEvent", "getValue", "pointAt", "showMessage"}

\* Steps of main() and of walkTroughView.__init__ that may raise.
MainFails == {"none", "reportView", "activeView", "workingPlane",
              "setPerspective", "init", "addMouse", "addKey"}

\* Positions the host camera can be at (1/1000 mm).
HostPositions == {<<0, 0, 0>>, <<1000, -2000, 500>>}

\* View directions of the host camera at start-up.
ViewDirs == {<<1, 0, 0>>, <<1, -1, 1>>}

\* Widget attributes that walkTroughView.__init__ creates: none. The handlers
\* read numericInput, numericInput3, label_mouse_motion_indicator and
\* label_elevation_indicator, and the read of a missing attribute raises
\* AttributeError.
widgets == {}

\* ------------------------------------------------------------ pure helpers

\* int(): truncation of a raw coordinate (half-pixels) to whole pixels.
Trunc(p) == IF p >= 0 THEN p \div 2 ELSE -((-p) \div 2)

\* atan(n / d) for n, d in {-1, 0, 1}, d # 0: 0 or +-pi/4.
Atan(n, d) == IF n = 0 THEN 0 ELSE IF n = d THEN 7854 ELSE -7854

\* sin on [0, pi] (Bhaskara's rational approximation, on half-degrees).
SinHalfTurn(a) ==
    LET d == (a * 360) \div Pi
        t == d * (360 - d)
    IN  (4 * TrigScale * t) \div (162000 - t)

\* sin(a), a in 1/10000 rad, result in 1/TrigScale.
Sin(a) ==
    LET r == a % TwoPi
    IN  IF r <= Pi THEN SinHalfTurn(r) ELSE -SinHalfTurn(r - Pi)

\* Mutant of Cos: the sine is taken in its place.
Cos_IsSin(a) == Sin(a)

\* cos(a) = sin(a + pi/2).
Cos(a) == Sin(a + HalfPi)

\* ------------------------------------------------------------------- state

VARIABLES
    pc,                  \* "main" | "active" | "aborted" | "crashed"
    \* walkTroughView fields
    x, y, z,
    azimuth, elevation,
    walktrough_speed_mm, mouse_speed,
    viewAroundState, elevationFrozen,
    d_az_init, d_el_init,
    vector_view,
    shut_down_flag,
    \* host viewer
    mouseEvent,          \* the pointer-motion callback is registered
    keyEvent,            \* the key-press callback is registered
    cam_position,        \* cam.position
    camTarget,           \* last target of cam.pointAt, <<>> before the first
    cameraType,          \* "Orthographic" | "Perspective"
    statusMessage,       \* <<>> when cleared, else <<speed shown>>
    closed,              \* the dialog has been closed
    \* observation
    pointer,             \* raw position of the pointer (half-pixels)
    pressed,             \* the key held down, "none" when none is
    events,              \* number of events delivered so far
    failures,            \* number of host calls that raised in a handler
    mouseReleases,       \* completed removeEventCallbackPivy(mouseEvent)
    keyReleases,         \* completed removeEventCallbackPivy(keyEvent)
    last,                \* the last event and what its handler did
    \* application of the angle helpers
    fnpc, argValue, argIncrement, res1, res2

session == <<x, y, z, azimuth, elevation, walktrough_speed_mm, mouse_speed,
             viewAroundState, elevationFrozen, d_az_init, d_el_init,
             vector_view, shut_down_flag>>

host == <<mouseEvent, keyEvent, cam_position, camTarget, cameraType,
          statusMessage, closed, pointer, pressed>>

observed == <<events, failures, mouseReleases, keyReleases, last>>

helpers == <<fnpc, argValue, argIncrement, res1, res2>>

vars == <<pc, session, host, observed, helpers>>

\* The CameraState of the specification.
CameraState == <<x, y, z, azimuth, elevation, walktrough_speed_mm,
                 mouse_speed, viewAroundState, elevationFrozen,
                 d_az_init, d_el_init>>

\* last: the handler that ran, the key and key state of a key event, the
\* host call that raised, whether the handler caught an exception, whether
\* it wrote cam.position, whether it called cam.pointAt, the teardown calls
\* it attempted, and shut_down_flag as it was before the event.
NoEvent == [handler |-> "none", key |-> "none", state |-> "none",
            fail |-> "none", raised |-> FALSE, posWrite |-> FALSE,
            pointAt |-> FALSE, steps |-> {}, wasEnded |-> FALSE]

\* --------------------------------------------------------------- start-up

\* The state before main() runs: no session object, the host in either
\* projection, nothing registered.
InitProgram ==
    /\ pc = "main"
    /\ x = 0 /\ y = 0 /\ z = 0
    /\ azimuth = 0 /\ elevation = 0
    /\ walktrough_speed_mm = 0 /\ mouse_speed = 0
    /\ viewAroundState = FALSE /\ elevationFrozen = FALSE
    /\ d_az_init = 0 /\ d_el_init = 0
    /\ vector_view = <<0, 0, 0>>
    /\ shut_down_flag = FALSE
    /\ mouseEvent = FALSE /\ keyEvent = FALSE
    /\ cam_position \in HostPositions
    /\ camTarget = <<>>
    /\ cameraType \in {"Orthographic", "Perspective"}
    /\ statusMessage = <<>>
    /\ closed = FALSE
    /\ pointer \in PointerPositions
    /\ pressed = "none"
    /\ events = 0 /\ failures = 0
    /\ mouseReleases = 0 /\ keyReleases = 0
    /\ last = NoEvent

HelpersIdle ==
    /\ fnpc = "idle"
    /\ argValue = 0 /\ argIncrement = 0 /\ res1 = 0 /\ res2 = 0

Init == InitProgram /\ HelpersIdle

\* The steps of main() that precede the Perspective switch, and the switch.
HostSteps == {"reportView", "activeView", "workingPlane", "setPerspective"}

\* Mutant of StartupAborts: a failed Perspective switch is logged and
\* start-up goes on.
StartupAborts_ButPerspective(mfail) == mfail \in HostSteps \ {"setPerspective"}

\* main() returns from the except clause of the step that raised: each of
\* its four try blocks ends in closeMessage() and return.
StartupAborts(mfail) == mfail \in HostSteps

\* main() and walkTroughView.__init__, with the host's view direction vd
\* and the step mfail that raises ("none": every step succeeds).
Main(vd, mfail) ==
    LET aborts    == StartupAborts(mfail)
        switched  == mfail \notin HostSteps
        built     == ~aborts /\ mfail # "init"
        mouseSub  == built /\ mfail # "addMouse"
        keySub    == mouseSub /\ mfail # "addKey"
    IN
    /\ pc = "main"
    /\ pc' = IF aborts THEN "aborted"
             ELSE IF keySub THEN "active" ELSE "crashed"
    /\ cameraType' = IF switched THEN "Perspective" ELSE cameraType
    /\ IF built
       THEN /\ x' = cam_position[1]
            /\ y' = cam_position[2]
            /\ z' = cam_position[3]
            /\ vector_view' = vd
            /\ walktrough_speed_mm' = DEFAULT_WALKTROUGH_SPEED_MM_PER_KEYPRESS
            /\ mouse_speed' = DEFAULT_MOUSE_SPEED
            /\ viewAroundState' = DEFALUT_MOUSE_ACTIVE
            /\ elevationFrozen' = DEFALUT_ELEVATION_FROZEN
            /\ azimuth' = IF vd[1] # 0 THEN Atan(vd[2], vd[1]) ELSE 0
            /\ elevation' = IF vd[2] # 0 THEN Atan(vd[3], vd[2]) ELSE 0
            /\ d_az_init' = 0
            /\ d_el_init' = 0
            /\ shut_down_flag' = FALSE
       ELSE UNCHANGED session
    /\ mouseEvent' = mouseSub
    /\ keyEvent' = keySub
    /\ last' = [NoEvent EXCEPT !.handler = "main", !.fail = mfail,
                               !.raised = (mfail # "none")]
    /\ UNCHANGED <<cam_position, camTarget, statusMessage, closed, pointer,
                   pressed, events, failures, mouseReleases, keyReleases,
                   helpers>>

\* ------------------------------------------------------ key-press handler

\* The host calls of endWalkTrough in order inside one try block, with
\* setCameraType's argument projection; the call named by fail raises, and
\* the calls after it are skipped. The result is the host state it leaves
\* and the set of calls it attempted.
Teardown(fail, projection) ==
    LET n    == Len(TeardownSteps)
        at   == IF fail \in TeardownStepSet
                THEN CHOOSE i \in 1..n : TeardownSteps[i] = fail
                ELSE n + 1
        done(i) == i < at
    IN  [mouseEvent    |-> IF done(1) THEN FALSE ELSE mouseEvent,
         keyEvent      |-> IF done(2) THEN FALSE ELSE keyEvent,
         cameraType    |-> IF done(3) THEN projection ELSE cameraType,
         statusMessage |-> IF done(4) THEN <<>> ELSE statusMessage,
         closed        |-> IF done(5) THEN TRUE ELSE closed,
         mouseReleases |-> IF done(1) THEN mouseReleases + 1 ELSE mouseReleases,
         keyReleases   |-> IF done(2) THEN keyReleases + 1 ELSE keyReleases,
         steps         |-> {TeardownSteps[i] : i \in {j \in 1..n : j <= at}}]

\* Mutant of endWalkTrough: the projection is left as it is.
endWalkTrough_KeepsProjection(fail) == Teardown(fail, cameraType)

\* endWalkTrough: unsubscribe both callbacks, set the Orthographic
\* projection, clear the status message, close the dialog.
endWalkTrough(fail) == Teardown(fail, "Orthographic")

\* Mutant of speed_increment: the mouse speed's increment is used.
speed_increment_OfMouse == DEFAULT_MOUSE_SPEED_INCREMENT

\* self.speed_increment, self.mouse_speed_increment: set in __init__; the
\* slots that would change them belong to widgets that are never created.
speed_increment == DEFAULT_WALKTROUGH_SPEED_MM_INCREMENT

mouse_speed_increment == DEFAULT_MOUSE_SPEED_INCREMENT

\* Mutant of ForwardRise: the elevation lock is ignored.
ForwardRise_IgnoresLock(v) == v * Sin(elevation)

\* The change of z in a forward step of length v (W adds it, S subtracts
\* it): v * sin(elevation) if not elevationFrozen, none otherwise.
ForwardRise(v) == IF ~elevationFrozen THEN v * Sin(elevation) ELSE 0

\* The elif chain on key_pressed: the CameraState fields it assigns. The key
\* state (down or up) is read but takes no part.
KeyBranch(key) ==
    LET v  == walktrough_speed_mm
        cs == [x |-> x, y |-> y, z |-> z,
               walktrough_speed_mm |-> walktrough_speed_mm,
               mouse_speed |-> mouse_speed,
               viewAroundState |-> viewAroundState,
               elevationFrozen |-> elevationFrozen]
    IN  CASE key = "W" ->
               [cs EXCEPT !.x = x + v * Cos(azimuth),
                          !.y = y + v * Sin(azimuth),
                          !.z = z + ForwardRise(v)]
          [] key = "S" ->
               [cs EXCEPT !.y = y - v * Sin(azimuth),
                          !.x = x - v * Cos(azimuth),
                          !.z = z - ForwardRise(v)]
          [] key = "A" ->
               [cs EXCEPT !.x = x + v * Cos(azimuth + HalfPi),
                          !.y = y + v * Sin(azimuth + HalfPi)]
          [] key = "D" ->
               [cs EXCEPT !.x = x - v * Cos(azimuth + HalfPi),
                          !.y = y - v * Sin(azimuth + HalfPi)]
          [] key = "Q" -> [cs EXCEPT !.z = z - v * Sin(elevation)]
          [] key = "E" -> [cs EXCEPT !.z = z + v * Sin(elevation)]
          [] key = "R" ->
               [cs EXCEPT !.walktrough_speed_mm =
                              v + speed_increment]
          [] key = "F" ->
               [cs EXCEPT !.walktrough_speed_mm =
                              v - speed_increment]
          [] key = "T" ->
               [cs EXCEPT !.mouse_speed =
                              mouse_speed + mouse_speed_increment]
          [] key = "G" ->
               [cs EXCEPT !.mouse_speed =
                              mouse_speed - mouse_speed_increment]
          [] key = "X" -> [cs EXCEPT !.viewAroundState = ~viewAroundState]
          [] key = "C" -> [cs EXCEPT !.elevationFrozen = ~elevationFrozen]
          [] OTHER -> cs

\* The widget a branch of the elif chain reads after its assignment.
WidgetOf(key) ==
    CASE key \in {"R", "F"} -> "numericInput"
      [] key \in {"T", "G"} -> "numericInput3"
      [] key = "X" -> "label_mouse_motion_indicator"
      [] key = "C" -> "label_elevation_indicator"
      [] OTHER -> "none"

\* The branch raises AttributeError: it reads a widget that does not exist.
BranchRaises(key) == WidgetOf(key) # "none" /\ WidgetOf(key) \notin widgets

\* The key for which the handler skips the position push.
SkipsPush(key) == key = "X"

\* The host calls the handler makes for a key, "none" for no failure. When
\* getEvent raises the handler has read neither key nor state, whatever they
\* are: that failure is drawn for one key.
KeyFailsOf(key) ==
    {"none"}
        \cup (IF key = "OTHER" THEN {"getEvent"} ELSE {})
        \cup (IF BranchRaises(key) THEN {} ELSE {"getPosition"})
        \cup (IF BranchRaises(key) \/ SkipsPush(key) THEN {} ELSE {"setValue"})
        \cup (IF key = "ESCAPE" THEN TeardownStepSet ELSE {})
        \cup (IF key = "V" THEN {"viewFit"} ELSE {})

\* Mutant of EndsWalkTrough: an event that cannot be read ends the session.
EndsWalkTrough_OnError(key, gotEvent) == ~gotEvent \/ key = "ESCAPE"

\* The test that selects the Escape branch: the event was read and its key
\* is Escape. No other branch and no except clause calls endWalkTrough.
EndsWalkTrough(key, gotEvent) == gotEvent /\ key = "ESCAPE"

\* updateKeyPressMotion for one key event: key, its state, the host call
\* that raises (fail) and the position hp the host's ViewFit moves the
\* camera to. The event carries the pointer's position. The host delivers
\* the release of a key after its press: a key-up event is for the key held.
\* time.sleep(0.3) (after V; after X and C it is not reached, the label
\* raises first) assigns nothing and reads no clock: the host queues the
\* events that arrive meanwhile and delivers them when the handler returns,
\* so the event handled next may have arrived at any time after this one.
updateKeyPressMotion(key, st, fail, hp) ==
    LET gotEvent == fail # "getEvent"
        isEsc    == EndsWalkTrough(key, gotEvent)
        fits     == gotEvent /\ key = "V" /\ fail # "viewFit"
        tw       == endWalkTrough(fail)
        cs       == KeyBranch(key)
        atPos    == gotEvent /\ ~BranchRaises(key)
        gotPos   == atPos /\ fail # "getPosition"
        atPush   == gotPos /\ ~SkipsPush(key)
        pushed   == atPush /\ fail # "setValue"
        raised   == \/ ~gotEvent
                    \/ gotEvent /\ BranchRaises(key)
                    \/ atPos /\ ~gotPos
                    \/ atPush /\ ~pushed
    IN
    /\ keyEvent
    /\ events < MaxEvents
    /\ st = "UP" => pressed = key
    /\ pressed' = IF st = "DOWN" THEN key ELSE "none"
    /\ fail \in KeyFailsOf(key)
    /\ fail # "none" => failures < MaxFailures
    /\ hp # cam_position => fits
    /\ events' = events + 1
    /\ failures' = IF fail # "none" THEN failures + 1 ELSE failures
    /\ x' = IF gotEvent THEN cs.x ELSE x
    /\ y' = IF gotEvent THEN cs.y ELSE y
    /\ z' = IF gotEvent THEN cs.z ELSE z
    /\ walktrough_speed_mm' =
           IF gotEvent THEN cs.walktrough_speed_mm ELSE walktrough_speed_mm
    /\ mouse_speed' = IF gotEvent THEN cs.mouse_speed ELSE mouse_speed
    /\ viewAroundState' =
           IF gotEvent THEN cs.viewAroundState ELSE viewAroundState
    /\ elevationFrozen' =
           IF gotEvent THEN cs.elevationFrozen ELSE elevationFrozen
    /\ shut_down_flag' = (shut_down_flag \/ isEsc)
    /\ d_az_init' = IF gotPos THEN Trunc(pointer[1]) ELSE d_az_init
    /\ d_el_init' = IF gotPos THEN Trunc(pointer[2]) ELSE d_el_init
    /\ mouseEvent' = IF isEsc THEN tw.mouseEvent ELSE mouseEvent
    /\ keyEvent' = IF isEsc THEN tw.keyEvent ELSE keyEvent
    /\ cameraType' = IF isEsc THEN tw.cameraType ELSE cameraType
    /\ statusMessage' = IF isEsc THEN tw.statusMessage ELSE statusMessage
    /\ closed' = IF isEsc THEN tw.closed ELSE closed
    /\ mouseReleases' = IF isEsc THEN tw.mouseReleases ELSE mouseReleases
    /\ keyReleases' = IF isEsc THEN tw.keyReleases ELSE keyReleases
    /\ cam_position' = IF pushed THEN <<x', y', z'>>
                       ELSE IF fits THEN hp ELSE cam_position
    /\ last' = [handler |-> "key", key |-> key, state |-> st,
                fail |-> fail, raised |-> raised,
                posWrite |-> pushed, pointAt |-> FALSE,
                steps |-> IF isEsc THEN tw.steps ELSE {},
                wasEnded |-> shut_down_flag]
    /\ UNCHANGED <<pc, azimuth, elevation, vector_view, camTarget, pointer,
                   helpers>>

\* ------------------------------------------------- pointer-motion handler

\* updateViewVector's look target: cam.position + (cos az, sin az, sin el).
LookTarget(p, az, el) == <<p[1] + Cos(az), p[2] + Sin(az), p[3] + Sin(el)>>

\* Mutant of Turn: the delta is taken as current minus previous.
Turn_Reversed(angle, from, to) == angle + (to - from) * mouse_speed

\* An angle after a pointer move from pixel from to pixel to:
\* angle += (from - to) * (mouse_speed / MOUSE_SPEED_DIVIDER).
Turn(angle, from, to) == angle + (from - to) * mouse_speed

\* Mutant of MouseActive: the test is never true, every pointer-motion
\* event takes the frozen branch.
MouseActive_Never == FALSE

\* Mutant of MouseActive: the frozen mode is ignored.
MouseActive_Always == TRUE

\* The test of updateMouseMotion's if: mouse motion is not frozen.
MouseActive == viewAroundState = TRUE

\* updateMouseMotion for one pointer event: the pointer has moved to the raw
\* position pos; fail is the host call that raises.
updateMouseMotion(pos, fail) ==
    LET active == MouseActive
        gotPos == active /\ fail # "getEvent"
        d_az   == Trunc(pos[1])
        d_el   == Trunc(pos[2])
        gotCam == fail # "getValue"
        aimed  == gotPos /\ gotCam /\ fail # "pointAt"
        shown  == aimed /\ fail # "showMessage"
    IN
    /\ mouseEvent
    /\ events < MaxEvents
    /\ ~active => fail \in {"none", "getValue"}
    /\ fail # "none" => failures < MaxFailures
    /\ pointer' = pos
    /\ events' = events + 1
    /\ failures' = IF fail # "none" THEN failures + 1 ELSE failures
    /\ azimuth' = IF gotPos THEN Turn(azimuth, d_az_init, d_az) ELSE azimuth
    /\ elevation' = IF gotPos THEN Turn(elevation, d_el_init, d_el)
                    ELSE elevation
    /\ d_az_init' = IF gotPos THEN d_az ELSE d_az_init
    /\ d_el_init' = IF gotPos THEN d_el ELSE d_el_init
    /\ vector_view' = IF gotPos /\ gotCam
                      THEN LookTarget(cam_position, azimuth', elevation')
                      ELSE vector_view
    /\ camTarget' = IF aimed THEN vector_view' ELSE camTarget
    /\ statusMessage' = IF shown THEN <<walktrough_speed_mm>>
                        ELSE statusMessage
    /\ x' = IF ~active /\ gotCam THEN cam_position[1] ELSE x
    /\ y' = IF ~active /\ gotCam THEN cam_position[2] ELSE y
    /\ z' = IF ~active /\ gotCam THEN cam_position[3] ELSE z
    /\ last' = [NoEvent EXCEPT !.handler = "mouse",
                               !.fail = fail, !.raised = (fail # "none"),
                               !.pointAt = aimed,
                               !.wasEnded = shut_down_flag]
    /\ UNCHANGED <<pc, walktrough_speed_mm, mouse_speed, viewAroundState,
                   elevationFrozen, shut_down_flag, mouseEvent, keyEvent,
                   cam_position, cameraType, closed, pressed, mouseReleases,
                   keyReleases, helpers>>

\* ------------------------------------------------------------ environment

\* Something other than the controller (the user, through the host's own
\* navigation) moves the host camera to hp. Moves in a row count as one.
HostMoveCamera(hp) ==
    /\ pc # "main"
    /\ last.handler # "host"
    /\ hp # cam_position
    /\ cam_position' = hp
    /\ last' = [NoEvent EXCEPT !.handler = "host",
                               !.wasEnded = shut_down_flag]
    /\ UNCHANGED <<pc, session, mouseEvent, keyEvent, camTarget, cameraType,
                   statusMessage, closed, pointer, pressed, events,
                   failures, mouseReleases, keyReleases, helpers>>

\* ------------------------------------------------------- angle helpers

\* value * RAD2DEG: radians (units of pi/RadPerPi) to degrees (units of
\* 1/DegScale degree).
RAD2DEG(value) == (value * 180 * DegScale) \div RadPerPi

\* value * DEG2RAD: degrees back to radians.
DEG2RAD(value) == (value * RadPerPi) \div (180 * DegScale)

\* Mutant of updateAz: the direction flag is ignored, the increment added.
updateAz_AlwaysAdds(value, increment, positive_incr) ==
    LET value_deg == RAD2DEG(value) % Deg360
    IN  DEG2RAD(value_deg + increment)

\* updateAz
updateAz(value, increment, positive_incr) ==
    LET value_deg == RAD2DEG(value) % Deg360
        new_value == IF positive_incr THEN value_deg + increment
                     ELSE value_deg - increment
    IN  DEG2RAD(new_value)

\* updateEl: the increment is applied to the unreduced degree value, and the
\* result is replaced by the reduced current value when it is below 90 or
\* above 270.
updateEl(value, increment, positive_incr) ==
    LET value_deg == RAD2DEG(value)
        value_mod == value_deg % Deg360
        new_value == IF positive_incr THEN value_deg + increment
                     ELSE value_deg - increment
    IN  DEG2RAD(IF new_value < Deg90 \/ new_value > Deg270
                THEN value_mod ELSE new_value)

\* Arguments the helpers are applied to: every half-degree of
\* -MaxTurns..MaxTurns turns, and increments of whole half-degrees.
AngleValues == (-(MaxTurns * 2 * RadPerPi))..(MaxTurns * 2 * RadPerPi)

AngleIncrements == {RAD2DEG(i) : i \in (-MaxInc)..MaxInc}

InitAngles ==
    /\ InitProgram
    /\ cam_position = <<0, 0, 0>>
    /\ cameraType = "Orthographic"
    /\ pointer = <<0, 0>>
    /\ fnpc = "args"
    /\ argValue \in AngleValues
    /\ argIncrement \in AngleIncrements
    /\ res1 = 0 /\ res2 = 0

\* updateAz(v, k, True)
ApplyAzUp ==
    /\ fnpc = "args"
    /\ res1' = updateAz(argValue, argIncrement, TRUE)
    /\ fnpc' = "azUp"
    /\ UNCHANGED <<pc, session, host, observed, argValue, argIncrement, res2>>

\* updateAz(result, k, False) on the result of ApplyAzUp
ApplyAzDown ==
    /\ fnpc = "azUp"
    /\ res2' = updateAz(res1, argIncrement, FALSE)
    /\ fnpc' = "azDone"
    /\ UNCHANGED <<pc, session, host, observed, argValue, argIncrement, res1>>

\* updateEl(v, k, positive)
ApplyEl(positive) ==
    /\ fnpc = "args"
    /\ res1' = updateEl(argValue, argIncrement, positive)
    /\ fnpc' = IF positive THEN "elUp" ELSE "elDown"
    /\ UNCHANGED <<pc, session, host, observed, argValue, argIncrement, res2>>

\* ---------------------------------------------------------- specification

Next ==
    \/ \E vd \in ViewDirs, mfail \in MainFails : Main(vd, mfail)
    \/ \E key \in Keys, st \in KeyStates, fail \in KeyFails,
          hp \in HostPositions :
            updateKeyPressMotion(key, st, fail, hp)
    \/ \E pos \in PointerPositions, fail \in MouseFails :
            updateMouseMotion(pos, fail)
    \/ \E hp \in HostPositions : HostMoveCamera(hp)

\* The macro: start-up, then the events the host delivers.
Spec == Init /\ [][Next]_vars

NextAngles ==
    \/ ApplyAzUp
    \/ ApplyAzDown
    \/ \E positive \in BOOLEAN : ApplyEl(positive)

\* The angle helpers applied to bounded arguments.
SpecAngles == InitAngles /\ [][NextAngles]_vars

\* ------------------------------------------------------------------ claims

\* The step just taken delivered a key event to updateKeyPressMotion.
KeyStep == events' # events /\ last'.handler = "key"

\* C1: after the key-press handler has handled an Escape event in which no
\* host call failed, both subscriptions are removed, the projection is
\* Orthographic, the status message is cleared, the dialog is closed and the
\* session is in the ended state.
C1_EscapeEndsSession ==
    (last.handler = "key" /\ last.key = "ESCAPE" /\ last.fail = "none")
        => /\ ~mouseEvent
           /\ ~keyEvent
           /\ cameraType = "Orthographic"
           /\ statusMessage = <<>>
           /\ closed
           /\ shut_down_flag

\* C1 witness: an Escape without failure, in a session that was active, had
\* pointed the camera and shown the status message.
C1_Witness ==
    /\ last.handler = "key" /\ last.key = "ESCAPE" /\ last.fail = "none"
    /\ ~last.wasEnded
    /\ camTarget # <<>>
    /\ failures = 0
    /\ closed /\ cameraType = "Orthographic"

\* C2 (as claimed): a key-press handler invocation with Escape after the
\* session has ended writes no host camera position, changes no projection
\* and leaves the session ended.
C2_SecondEscapeMutatesNothing ==
    [][(KeyStep /\ last'.key = "ESCAPE" /\ shut_down_flag)
          => /\ ~last'.posWrite
             /\ cam_position' = cam_position
             /\ cameraType' = cameraType
             /\ shut_down_flag']_vars

\* C3 (as claimed): each subscription handle is released at most once, and
\* only once the session is ended by an Escape event.
C3_ReleasedOnce ==
    /\ mouseReleases <= 1
    /\ keyReleases <= 1
    /\ (mouseReleases > 0 \/ keyReleases > 0) => shut_down_flag

\* C4 (as claimed): in session teardown every one of the five steps is
\* attempted, whichever earlier step failed.
C4_AllTeardownStepsAttempted ==
    (last.handler = "key" /\ last.key = "ESCAPE")
        => last.steps = TeardownStepSet

\* C5 (as claimed): when a handler catches an error raised while it
\* processes an event, the CameraState after the handler returns is the
\* CameraState before the event.
C5_ErrorLeavesCameraState ==
    [][(events' # events /\ last'.raised) => CameraState' = CameraState]_vars

\* C6 (as claimed): a key-up event for Escape, W, S, A, D, Q or E performs
\* no teardown and no position change.
C6_KeyUpDoesNothing ==
    [][(KeyStep /\ last'.state = "UP"
          /\ last'.key \in {"ESCAPE", "W", "S", "A", "D", "Q", "E"})
          => /\ <<x, y, z>>' = <<x, y, z>>
             /\ last'.steps = {}
             /\ shut_down_flag' = shut_down_flag]_vars

\* C7 (as claimed): after the key-press handler has handled a key event in
\* which no host call failed, whichever the key, the last-pointer reference
\* is the truncated pointer position carried by the event.
C7_PointerReferenceReset ==
    (last.handler = "key" /\ last.fail = "none")
        => /\ d_az_init = Trunc(pointer[1])
           /\ d_el_init = Trunc(pointer[2])

\* C8 (as claimed): after the key-press handler has handled a key event in
\* which no host call failed, the host camera position has been set to
\* (x, y, z) when the key is not X, and has not been written when it is X.
C8_PositionPushedUnlessX ==
    (last.handler = "key" /\ last.fail = "none")
        => IF last.key = "X"
           THEN ~last.posWrite
           ELSE last.posWrite /\ cam_position = <<x, y, z>>

\* C9 (as claimed): the angle updateEl returns, in degrees, never lies
\* strictly between 90 and 270.
C9_ElevationOutsidePoles ==
    fnpc \in {"elUp", "elDown"}
        => ~(Deg90 < RAD2DEG(res1) /\ RAD2DEG(res1) < Deg270)

C11_OnlyEscapeEndsSession ==
    [][/\ (events' # events /\ last'.key # "ESCAPE")
            => /\ mouseEvent' = mouseEvent
               /\ keyEvent' = keyEvent
               /\ cameraType' = cameraType
               /\ closed' = closed
               /\ shut_down_flag' = shut_down_flag
       /\ (pc' = "active" /\ ~shut_down_flag')
            => /\ mouseEvent' /\ keyEvent'
               /\ cameraType' = "Perspective"
               /\ ~closed']_vars

\* C11 witness: two events, the last one raised in its handler, none was an
\* Escape, and the session is still subscribed.
C11_Witness ==
    /\ pc = "active"
    /\ events >= 2
    /\ last.handler \in {"key", "mouse"}
    /\ last.raised
    /\ ~shut_down_flag
    /\ mouseEvent /\ keyEvent /\ cameraType = "Perspective"

\* C12: a pointer-motion event handled in frozen mode changes neither
\* azimuth nor elevation nor the last-pointer reference and issues no
\* point-at command, and when the host returns its camera position, (x, y, z)
\* becomes that position; a pointer-motion event handled in active mode
\* leaves (x, y, z) as it was, whatever the host camera position is, and
\* when no host call raises it points the camera at the look target of the
\* new azimuth and elevation.
C12_FrozenSyncsActiveRotates ==
    [][(events' # events /\ last'.handler = "mouse")
          => IF viewAroundState
             THEN /\ <<x, y, z>>' = <<x, y, z>>
                  /\ last'.fail = "none"
                        => /\ last'.pointAt
                           /\ camTarget' = <<cam_position[1] + Cos(azimuth'),
                                             cam_position[2] + Sin(azimuth'),
                                             cam_position[3] + Sin(elevation')>>
             ELSE /\ azimuth' = azimuth
                  /\ elevation' = elevation
                  /\ <<d_az_init, d_el_init>>' = <<d_az_init, d_el_init>>
                  /\ ~last'.pointAt
                  /\ camTarget' = camTarget
                  /\ last'.fail = "none" => <<x, y, z>>' = cam_position]_vars

\* C12 witness: a pointer-motion event handled in frozen mode to a pointer
\* position other than the last-pointer reference, after which (x, y, z) is
\* the host camera position and no point-at was ever issued.
C12_Witness ==
    /\ last.handler = "mouse" /\ last.fail = "none"
    /\ ~viewAroundState
    /\ <<x, y, z>> = cam_position
    /\ Trunc(pointer[1]) # d_az_init
    /\ camTarget = <<>>

\* C13: a W or S key event handled while the elevation lock is on leaves z
\* unchanged; handled while the lock is off, W adds and S subtracts
\* walktrough_speed_mm * sin(elevation) to z.
C13_ElevationLockHoldsZ ==
    [][(KeyStep /\ last'.key \in {"W", "S"})
          => z' = IF elevationFrozen THEN z
                  ELSE IF last'.key = "W"
                       THEN z + walktrough_speed_mm * Sin(elevation)
                       ELSE z - walktrough_speed_mm * Sin(elevation)]_vars

\* C13 witness: a W or S key event handled with the lock on, a walk speed
\* and an elevation whose sine is not zero, while x did move.
C13_Witness ==
    /\ last.handler = "key" /\ last.key \in {"W", "S"}
    /\ elevationFrozen
    /\ walktrough_speed_mm * Sin(elevation) # 0
    /\ z = cam_position[3]
    /\ last.posWrite

\* C14: a W key event adds walkSpeed * (cos az, sin az) to (x, y) and a D
\* key event subtracts walkSpeed * (cos(az + 90 deg), sin(az + 90 deg)); from
\* position (0, 0, 0), azimuth 0, elevation 0 and walkSpeed 100 a W key event
\* moves the position to (100, 0, 0), and the D key event that follows it
\* moves the position to (100, -100, 0). Positions are in 1/TrigScale mm.
C14_ForwardThenRight ==
    [][/\ (KeyStep /\ last'.key = "W")
            => /\ x' = x + walktrough_speed_mm * Cos(azimuth)
               /\ y' = y + walktrough_speed_mm * Sin(azimuth)
       /\ (KeyStep /\ last'.key = "D")
            => /\ x' = x - walktrough_speed_mm * Cos(azimuth + HalfPi)
               /\ y' = y - walktrough_speed_mm * Sin(azimuth + HalfPi)
               /\ z' = z
       /\ (KeyStep /\ last'.key = "W"
             /\ <<x, y, z>> = <<0, 0, 0>> /\ azimuth = 0 /\ elevation = 0
             /\ walktrough_speed_mm = 100)
            => <<x, y, z>>' = <<100 * TrigScale, 0, 0>>
       /\ (KeyStep /\ last'.key = "D" /\ last.key = "W"
             /\ <<x, y, z>> = <<100 * TrigScale, 0, 0>>
             /\ azimuth = 0 /\ elevation = 0 /\ walktrough_speed_mm = 100)
            => <<x, y, z>>' = <<100 * TrigScale, -100 * TrigScale, 0>>]_vars

\* C14 witness: the end of the scenario, a D key event after a W key event
\* from the origin, with the position pushed to the host camera.
C14_Witness ==
    /\ last.handler = "key" /\ last.key = "D" /\ last.fail = "none"
    /\ events = 2 /\ pressed = "D"
    /\ azimuth = 0 /\ elevation = 0 /\ walktrough_speed_mm = 100
    /\ <<x, y, z>> = <<100 * TrigScale, -100 * TrigScale, 0>>
    /\ cam_position = <<x, y, z>>

\* C15: a pointer-motion event read in active mode at the truncated
\* coordinates (px, py) changes azimuth by (lastPointerX - px) * mouseSpeed
\* and elevation by (lastPointerY - py) * mouseSpeed, in 1/10000 rad, and
\* stores (px, py) as the last-pointer reference; a zero delta leaves the
\* angle unchanged, and a pointer 10 pixels right of the reference with
\* mouseSpeed 50 changes azimuth by -500 (-0.05 rad).
C15_PointerDeltaTurns ==
    [][(events' # events /\ last'.handler = "mouse" /\ viewAroundState
          /\ last'.fail # "getEvent")
          => LET px == Trunc(pointer'[1])
                 py == Trunc(pointer'[2])
             IN  /\ azimuth' - azimuth = (d_az_init - px) * mouse_speed
                 /\ elevation' - elevation = (d_el_init - py) * mouse_speed
                 /\ <<d_az_init, d_el_init>>' = <<px, py>>
                 /\ px = d_az_init => azimuth' = azimuth
                 /\ py = d_el_init => elevation' = elevation
                 /\ (px - d_az_init = 10 /\ mouse_speed = 50)
                       => azimuth' = azimuth - 500]_vars

\* C15 witness: a pointer-motion event in active mode with mouseSpeed 50
\* that moved the reference from pixel 0 to pixel 10 and left the azimuth
\* 500 below a start-up value, with a zero vertical delta.
C15_Witness ==
    /\ last.handler = "mouse" /\ last.fail = "none"
    /\ viewAroundState /\ mouse_speed = 50
    /\ d_az_init = 10 /\ d_el_init = 0
    /\ azimuth + 500 \in {Atan(n, 1) : n \in {-1, 0, 1}}
    /\ elevation \in {Atan(n, 1) : n \in {-1, 0, 1}}

\* C16: an R key event increases walkSpeed by walkSpeedIncrement and an F
\* key event decreases it by the same amount; a T key event increases
\* mouseSpeed by mouseSpeedIncrement and a G key event decreases it by the
\* same amount; two R events from start-up leave walkSpeed at its initial
\* value plus twice the increment, and an R followed by an F leaves it at
\* its initial value (likewise T, T and T, G for mouseSpeed).
C16_SpeedKeysStep ==
    [][LET inc    == DEFAULT_WALKTROUGH_SPEED_MM_INCREMENT
           minc   == DEFAULT_MOUSE_SPEED_INCREMENT
           second == KeyStep /\ events = 1 /\ last.handler = "key"
       IN
       /\ (KeyStep /\ last'.key = "R")
            => walktrough_speed_mm' = walktrough_speed_mm + inc
       /\ (KeyStep /\ last'.key = "F")
            => walktrough_speed_mm' = walktrough_speed_mm - inc
       /\ (KeyStep /\ last'.key = "T") => mouse_speed' = mouse_speed + minc
       /\ (KeyStep /\ last'.key = "G") => mouse_speed' = mouse_speed - minc
       /\ (KeyStep /\ last'.key \in {"R", "F"}) => mouse_speed' = mouse_speed
       /\ (KeyStep /\ last'.key \in {"T", "G"})
            => walktrough_speed_mm' = walktrough_speed_mm
       /\ (second /\ last.key = "R" /\ last'.key = "R")
            => walktrough_speed_mm' =
                   DEFAULT_WALKTROUGH_SPEED_MM_PER_KEYPRESS + 2 * inc
       /\ (second /\ last.key = "R" /\ last'.key = "F")
            => walktrough_speed_mm' = DEFAULT_WALKTROUGH_SPEED_MM_PER_KEYPRESS
       /\ (second /\ last.key = "T" /\ last'.key = "T")
            => mouse_speed' = DEFAULT_MOUSE_SPEED + 2 * minc
       /\ (second /\ last.key = "T" /\ last'.key = "G")
            => mouse_speed' = DEFAULT_MOUSE_SPEED]_vars

\* C16 witness: the second of two R key events, after which walkSpeed is
\* its initial value plus twice the increment and mouseSpeed is untouched.
C16_Witness ==
    /\ last.handler = "key" /\ last.key = "R"
    /\ events = 2
    /\ walktrough_speed_mm = DEFAULT_WALKTROUGH_SPEED_MM_PER_KEYPRESS
                                + 2 * DEFAULT_WALKTROUGH_SPEED_MM_INCREMENT
    /\ mouse_speed = DEFAULT_MOUSE_SPEED

\* C17: when start-up fails at the report view, the active view, the
\* working plane or the Perspective switch, it aborts with no subscription
\* and no session state created; a pointer-motion or key-press subscription
\* is created only by a start-up that did not abort, and only with the host
\* in Perspective projection.
C17_NoSubscriptionAfterFailedStart ==
    [][/\ pc' = "aborted"
            => /\ ~mouseEvent' /\ ~keyEvent'
               /\ session' = session
               /\ last'.handler \in {"main", "host"}
       /\ (last'.handler = "main" /\ last'.fail \in HostSteps)
            => pc' = "aborted" /\ cameraType' = cameraType
       /\ ((~mouseEvent /\ mouseEvent') \/ (~keyEvent /\ keyEvent'))
            => /\ pc = "main" /\ pc' # "aborted"
               /\ last'.fail \notin HostSteps
               /\ cameraType' = "Perspective"]_vars

\* C17 witness: start-up aborted at the Perspective switch from a host in
\* Orthographic projection, with nothing subscribed.
C17_Witness ==
    /\ pc = "aborted"
    /\ last.handler = "main" /\ last.fail = "setPerspective"
    /\ cameraType = "Orthographic"
    /\ ~mouseEvent /\ ~keyEvent

\* C18 (as claimed): a key event for X or C delivered right after an event
\* for the same key (its repeat or its release, arrived within the
\* cooldown) toggles no mode flag.
C18_ToggleDebounced ==
    [][(KeyStep /\ last.handler = "key"
          /\ last'.key \in {"X", "C"} /\ last.key = last'.key)
          => /\ viewAroundState' = viewAroundState
             /\ elevationFrozen' = elevationFrozen]_vars

\* C19 (as claimed): start-up leaves (x, y, z) equal to the host camera
\* position, and every handler invocation that begins with the two equal,
\* raising or not, ends with the two equal.
C19_HostPositionFollowsState ==
    [][/\ (pc = "main" /\ pc' = "active") => cam_position' = <<x, y, z>>'
       /\ (events' # events /\ cam_position = <<x, y, z>>)
            => cam_position' = <<x, y, z>>']_vars

\* C20: a key event changes neither azimuth nor elevation; once the session
\* is built, azimuth and elevation change only in a pointer-motion event
\* handled in active mode; and a pointer-motion event handled in active mode
\* changes none of x, y, z, walkSpeed, mouseSpeed, the mouse-active flag and
\* the elevation-lock flag.
C20_HandlersKeepTheirFrame ==
    [][/\ KeyStep => <<azimuth, elevation>>' = <<azimuth, elevation>>
       /\ (pc # "main" /\ <<azimuth, elevation>>' # <<azimuth, elevation>>)
            => /\ events' # events
               /\ last'.handler = "mouse"
               /\ viewAroundState
       /\ (events' # events /\ last'.handler = "mouse" /\ viewAroundState)
            => /\ <<x, y, z>>' = <<x, y, z>>
               /\ walktrough_speed_mm' = walktrough_speed_mm
               /\ mouse_speed' = mouse_speed
               /\ viewAroundState' = viewAroundState
               /\ elevationFrozen' = elevationFrozen]_vars

\* C20 witness: a W key event after a pointer-motion event in active mode
\* that turned the view: the position has moved along the turned azimuth,
\* which is no start-up value.
C20_Witness ==
    /\ last.handler = "key" /\ last.key = "W" /\ last.posWrite
    /\ viewAroundState
    /\ camTarget # <<>>
    /\ azimuth \notin {Atan(n, 1) : n \in {-1, 0, 1}}
    /\ <<x, y, z>> = cam_position

====
